---- MODULE Spec2Model ----
(***************************************************************************)
(* Lead-harvest pipeline of dobleduche/leaddev: the scorer (scoring.js),   *)
(* the Reddit source client (sources/reddit.js), the lead store (db.js),   *)
(* the harvest scheduler (server.js) and the paged listing (api/index.js). *)
(*                                                                         *)
(* Text is a sequence of one-character strings.  The em dash of the        *)
(* title/body separator is the one-element token EmDash.                   *)
(***************************************************************************)
EXTENDS Integers, Sequences, FiniteSets, TLC

VARIABLES
  sPc, sContent, sCreated, sResult,          \* one call of scorePost
  fPc, fCsv, fIdx, fResults, fResponses,    \* one call of fetchReddit
  started, alive, pc, reddit, idx, newRows,  \* the scheduler and its harvest runs
  added,                                     \* rows each run has added to the store
  logged,                                    \* what the run that just ended logged
  usePg, leads, clock,                       \* the lead store
  okBy, last,                                \* what the callers of the store saw
  resp,                                      \* the response of GET /api/leads
  bPg, bLite, bClock, bSeen                  \* one caller's calls on both backends

scoreVars == <<sPc, sContent, sCreated, sResult>>
fetchVars == <<fPc, fCsv, fIdx, fResults, fResponses>>
harvestVars == <<started, alive, pc, reddit, idx, newRows, added, logged>>
storeVars == <<usePg, leads, clock, okBy, last>>
backendVars == <<bPg, bLite, bClock, bSeen>>
vars == <<scoreVars, fetchVars, backendVars, harvestVars, storeVars, resp>>

-----------------------------------------------------------------------------
(* JavaScript values *)

\* null and undefined: one-element sequences that no text equals
NULL == <<"null">>
UNDEFINED == <<"undefined">>
EmDash == "EMDASH"

\* an absent number is <<>>, a number n is <<n>>
NoNumber == <<>>
Num(n) == <<n>>

Max(S) == CHOOSE m \in S : \A n \in S : n <= m
Min(S) == CHOOSE m \in S : \A n \in S : m <= n

RECURSIVE Concat(_)
Concat(ss) == IF ss = <<>> THEN <<>> ELSE Head(ss) \o Concat(Tail(ss))

-----------------------------------------------------------------------------
(* Characters and the regular-expression primitives scoring.js relies on *)

LowerOf ==
  [c \in {"A", "B", "C", "D", "E", "F", "G", "H", "I", "J", "K", "L", "M",
          "N", "O", "P", "Q", "R", "S", "T", "U", "V", "W", "X", "Y", "Z"} |->
     CASE c = "A" -> "a" [] c = "B" -> "b" [] c = "C" -> "c" [] c = "D" -> "d"
       [] c = "E" -> "e" [] c = "F" -> "f" [] c = "G" -> "g" [] c = "H" -> "h"
       [] c = "I" -> "i" [] c = "J" -> "j" [] c = "K" -> "k" [] c = "L" -> "l"
       [] c = "M" -> "m" [] c = "N" -> "n" [] c = "O" -> "o" [] c = "P" -> "p"
       [] c = "Q" -> "q" [] c = "R" -> "r" [] c = "S" -> "s" [] c = "T" -> "t"
       [] c = "U" -> "u" [] c = "V" -> "v" [] c = "W" -> "w" [] c = "X" -> "x"
       [] c = "Y" -> "y" [] c = "Z" -> "z"]

LowerLetters ==
  {"a", "b", "c", "d", "e", "f", "g", "h", "i", "j", "k", "l", "m",
   "n", "o", "p", "q", "r", "s", "t", "u", "v", "w", "x", "y", "z"}
Digits == {"0", "1", "2", "3", "4", "5", "6", "7", "8", "9"}

\* the i flag: both sides are compared in one letter case
ToLower(c) == IF c \in DOMAIN LowerOf THEN LowerOf[c] ELSE c
Lower(s) == [k \in 1..Len(s) |-> ToLower(s[k])]

IsLetter(c) == ToLower(c) \in LowerLetters
IsDigit(c) == c \in Digits
\* \w
IsWordChar(c) == IsLetter(c) \/ IsDigit(c) \/ c = "_"
\* \s
IsSpace(c) == c \in {" ", "\t", "\n", "\r"}
\* what . does not match
IsLineTerminator(c) == c \in {"\n", "\r"}

\* the literal pattern pat occurs in s at position i
MatchesAt(pat, s, i) ==
  /\ i >= 1
  /\ i + Len(pat) - 1 <= Len(s)
  /\ \A k \in 1..Len(pat) : s[i + k - 1] = pat[k]

Contains(pat, s) == \E i \in 1..Len(s) : MatchesAt(pat, s, i)

\* \b between s[i-1] and s[i]
WordBoundary(s, i) ==
  LET before == i - 1 >= 1 /\ i - 1 <= Len(s) /\ IsWordChar(s[i - 1])
      after == i >= 1 /\ i <= Len(s) /\ IsWordChar(s[i])
  IN  before # after

\* a pattern interpolated into new RegExp unescaped: "." matches any character
PatternMatchesAt(pat, s, i) ==
  /\ i >= 1
  /\ i + Len(pat) - 1 <= Len(s)
  /\ \A k \in 1..Len(pat) :
       IF pat[k] = "." THEN ~IsLineTerminator(s[i + k - 1])
       ELSE s[i + k - 1] = pat[k]

\* /\bpat\b/ matches at i (pat and s in lower case)
WordMatchesAt(pat, s, i) ==
  /\ PatternMatchesAt(pat, s, i)
  /\ WordBoundary(s, i)
  /\ WordBoundary(s, i + Len(pat))

-----------------------------------------------------------------------------
(* scoring.js *)

DISQUALIFIED == -999
PAY_POINTS == 3
URGENCY_POINTS == 2
SECONDS_PER_HOUR == 3600
RECENT_HOURS == 4

techKeywords ==
  << <<"R", "e", "a", "c", "t">>,
     <<"W", "e", "b", "3">>,
     <<"A", "I">>,
     <<"S", "o", "l", "i", "d", "i", "t", "y">>,
     <<"N", "o", "d", "e", ".", "j", "s">>,
     <<"N", "e", "x", "t", ".", "j", "s">>,
     <<"P", "y", "t", "h", "o", "n">>,
     <<"J", "a", "v", "a", "S", "c", "r", "i", "p", "t">>,
     <<"T", "y", "p", "e", "S", "c", "r", "i", "p", "t">>,
     <<"G", "o">>,
     <<"R", "u", "s", "t">>,
     <<"J", "a", "v", "a">>,
     <<"C", "#">>,
     <<"P", "H", "P">>,
     <<"R", "u", "b", "y">>,
     <<"V", "u", "e">>,
     <<"A", "n", "g", "u", "l", "a", "r">>,
     <<"S", "v", "e", "l", "t", "e">>,
     <<"D", "o", "c", "k", "e", "r">>,
     <<"K", "u", "b", "e", "r", "n", "e", "t", "e", "s">>,
     <<"A", "W", "S">>,
     <<"A", "z", "u", "r", "e">>,
     <<"G", "C", "P">>,
     <<"P", "o", "s", "t", "g", "r", "e", "S", "Q", "L">>,
     <<"M", "o", "n", "g", "o", "D", "B">>,
     <<"G", "r", "a", "p", "h", "Q", "L">>,
     <<"R", "E", "S", "T", " ", "A", "P", "I">> >>

locationWords ==
  << <<"r", "e", "m", "o", "t", "e">>,
     <<"a", "n", "y", "w", "h", "e", "r", "e">>,
     <<"u", "s", "-", "o", "n", "l", "y">>,
     <<"e", "u", "-", "o", "n", "l", "y">>,
     <<"w", "o", "r", "l", "d", "w", "i", "d", "e">>,
     <<"l", "o", "n", "d", "o", "n">>,
     <<"n", "e", "w", " ", "y", "o", "r", "k">>,
     <<"s", "a", "n", " ", "f", "r", "a", "n", "c", "i", "s", "c", "o">>,
     <<"b", "e", "r", "l", "i", "n">>,
     <<"t", "o", "r", "o", "n", "t", "o">>,
     <<"s", "y", "d", "n", "e", "y">> >>

companySuffixes ==
  << <<"i", "n", "c">>, <<"l", "l", "c">>, <<"c", "o", "r", "p">>,
     <<"l", "t", "d">>, <<"c", "o">> >>

\* what RegExp.prototype.test sees: its argument converted to a string
ToText(content) ==
  IF content = UNDEFINED THEN <<"u", "n", "d", "e", "f", "i", "n", "e", "d">>
  ELSE IF content = NULL THEN <<"n", "u", "l", "l">>
  ELSE content

\* /\$[0-9]+|ETH|BTC/i.test(content)
\* (variant without the tokens: PayRegexMutant)
PayRegexMutant(text) ==
  LET s == Lower(text)
  IN  \E i \in 1..Len(s) : s[i] = "$" /\ i < Len(s) /\ IsDigit(s[i + 1])
PayRegex(text) ==
  LET s == Lower(text)
  IN  \/ \E i \in 1..Len(s) : s[i] = "$" /\ i < Len(s) /\ IsDigit(s[i + 1])
      \/ Contains(<<"e", "t", "h">>, s)
      \/ Contains(<<"b", "t", "c">>, s)

\* /ASAP|urgent/i.test(content)
UrgencyRegex(text) ==
  LET s == Lower(text)
  IN  \/ Contains(<<"a", "s", "a", "p">>, s)
      \/ Contains(<<"u", "r", "g", "e", "n", "t">>, s)

\* /unpaid|exposure/i.test(content)
\* (variant without the i flag: NegativeRegexMutant)
NegativeRegexMutant(text) ==
  \/ Contains(<<"u", "n", "p", "a", "i", "d">>, text)
  \/ Contains(<<"e", "x", "p", "o", "s", "u", "r", "e">>, text)
NegativeRegex(text) ==
  LET s == Lower(text)
  IN  \/ Contains(<<"u", "n", "p", "a", "i", "d">>, s)
      \/ Contains(<<"e", "x", "p", "o", "s", "u", "r", "e">>, s)

\* created_utc || Date.now()/1000: undefined, null and 0 are all falsy
TimestampOrNow(created_utc, now) ==
  IF created_utc = NoNumber \/ created_utc = Num(0) THEN now ELSE created_utc[1]

\* ageHours < 4, with ageHours = (now - created) / 3600 over the reals
IsRecent(created_utc, now) ==
  now - TimestampOrNow(created_utc, now) < RECENT_HOURS * SECONDS_PER_HOUR

\* new RegExp(`\\b${keyword}\\b`, 'i').test(content)
KeywordRegex(keyword, text) ==
  LET s == Lower(text)
      p == Lower(keyword)
  IN  \E i \in 1..Len(s) : WordMatchesAt(p, s, i)

\* the keywords found, in the order of techKeywords (a Set keeps insertion order)
TechStack(text) == SelectSeq(techKeywords, LAMBDA kw : KeywordRegex(kw, text))

\* first index >= i of s that is not white space (Len(s) + 1 if none)
SkipSpace(s, i) ==
  Min({k \in i..Len(s) + 1 : k = Len(s) + 1 \/ ~IsSpace(s[k])})

\* [a-zA-Z0-9\s.&'-]
InCompanyClass(c) ==
  IsLetter(c) \/ IsDigit(c) \/ IsSpace(c) \/ c \in {".", "&", "'", "-"}

\* last index of the run of company-class characters that starts at i (i - 1 if none)
ClassRunEnd(s, i) ==
  Max({k \in i - 1..Len(s) : \A m \in i..k : InCompanyClass(s[m])})

\* the group captured when
\* /(?:at|for)\s+([A-Z][a-zA-Z0-9\s.&'-]+(?:Inc|LLC|Corp|Ltd|Co)\.?)/i
\* matches with (?:at|for) at position i of text, or NULL: the run after the first
\* letter is greedy, so the last position where a suffix fits is taken, the
\* suffixes are tried in their written order, and a final "." is taken if there
CompanyAt(text, i) ==
  LET s == Lower(text)
      p == IF MatchesAt(<<"a", "t">>, s, i) THEN 2
           ELSE IF MatchesAt(<<"f", "o", "r">>, s, i) THEN 3 ELSE 0
      j == SkipSpace(s, i + p)
      runEnd == ClassRunEnd(s, j + 1)
      Ks == {k \in j + 1..runEnd :
               \E n \in 1..Len(companySuffixes) : MatchesAt(companySuffixes[n], s, k + 1)}
  IN  IF p = 0 \/ j = i + p \/ j > Len(s) THEN NULL
      ELSE IF ~IsLetter(s[j]) \/ Ks = {} THEN NULL
      ELSE LET k == Max(Ks)
               n == Min({m \in 1..Len(companySuffixes) :
                           MatchesAt(companySuffixes[m], s, k + 1)})
               e == k + Len(companySuffixes[n])
               e2 == IF e < Len(s) /\ s[e + 1] = "." THEN e + 1 ELSE e
           IN  SubSeq(text, j, e2)

\* content.match(...): the leftmost match; [1].trim() leaves the capture as it is,
\* for it starts with a letter and ends with a letter or "."
CompanyMatch(text) ==
  LET Is == {i \in 1..Len(text) : CompanyAt(text, i) # NULL}
  IN  IF Is = {} THEN NULL ELSE CompanyAt(text, Min(Is))

\* the word of locationWords matching at i, first in written order (0 if none)
LocationAt(s, i) ==
  LET Ns == {n \in 1..Len(locationWords) : WordMatchesAt(locationWords[n], s, i)}
  IN  IF Ns = {} THEN 0 ELSE Min(Ns)

\* content.match(/\b(remote|...|sydney)\b/i): the leftmost match, as written in text
LocationMatch(text) ==
  LET s == Lower(text)
      Is == {i \in 1..Len(s) : LocationAt(s, i) # 0}
  IN  IF Is = {} THEN NULL
      ELSE LET i == Min(Is)
           IN  SubSeq(text, i, i + Len(locationWords[LocationAt(s, i)]) - 1)

Points(found) == IF found THEN 1 ELSE 0

\* scorePost({ content, created_utc }) evaluated at the instant now (seconds).
\* threw: content.match is called on undefined or null (a TypeError)
scorePost(content, created_utc, now) ==
  LET text == ToText(content)
      base == (IF PayRegex(text) THEN PAY_POINTS ELSE 0)
              + (IF UrgencyRegex(text) THEN URGENCY_POINTS ELSE 0)
              + Points(IsRecent(created_utc, now))
  IN  IF NegativeRegex(text)
      THEN [threw |-> FALSE, score |-> DISQUALIFIED, company |-> NULL,
            location |-> NULL, techStack |-> <<>>]
      ELSE IF content = UNDEFINED \/ content = NULL
      THEN [threw |-> TRUE, score |-> base + Len(TechStack(text)), company |-> NULL,
            location |-> NULL, techStack |-> TechStack(text)]
      ELSE [threw |-> FALSE,
            score |-> base + Len(TechStack(text))
                      + Points(CompanyMatch(text) # NULL)
                      + Points(LocationMatch(text) # NULL),
            company |-> CompanyMatch(text),
            location |-> LocationMatch(text),
            techStack |-> TechStack(text)]

-----------------------------------------------------------------------------
(* sources/reddit.js *)

TITLE_MAX == 180
CONTENT_MAX == 2000

\* s.slice(0, n)
Slice(s, n) == SubSeq(s, 1, Min({n, Len(s)}))

\* Boolean(x) of a string or an absent value
Truthy(x) == x # UNDEFINED /\ x # NULL /\ x # <<>>

\* s.trim()
Trim(s) ==
  LET Keep == {k \in 1..Len(s) : ~IsSpace(s[k])}
  IN  IF Keep = {} THEN <<>> ELSE SubSeq(s, Min(Keep), Max(Keep))

\* s.split(',')
RECURSIVE Split(_)
Split(s) ==
  LET Commas == {k \in 1..Len(s) : s[k] = ","}
  IN  IF Commas = {} THEN <<s>>
      ELSE <<SubSeq(s, 1, Min(Commas) - 1)>> \o Split(SubSeq(s, Min(Commas) + 1, Len(s)))

\* (subsCsv || '').split(',').map(s => s.trim()).filter(Boolean)
ParseSubs(subsCsv) ==
  LET pieces == Split(IF Truthy(subsCsv) THEN subsCsv ELSE <<>>)
  IN  SelectSeq([k \in 1..Len(pieces) |-> Trim(pieces[k])], Truthy)

\* [p.title, p.selftext].filter(Boolean).join(' - ') with an em dash
PostContent(p) ==
  IF Truthy(p.title) /\ Truthy(p.selftext) THEN p.title \o <<" ", EmDash, " ">> \o p.selftext
  ELSE IF Truthy(p.title) THEN p.title
  ELSE IF Truthy(p.selftext) THEN p.selftext
  ELSE <<>>

\* content.match(/\$[0-9][0-9,]*/)?.[0] || ''
BudgetMatch(content) ==
  LET Is == {i \in 1..Len(content) :
               content[i] = "$" /\ i < Len(content) /\ IsDigit(content[i + 1])}
  IN  IF Is = {} THEN <<>>
      ELSE LET i == Min(Is)
               e == Max({k \in i + 1..Len(content) :
                           \A m \in i + 1..k : IsDigit(content[m]) \/ content[m] = ","})
           IN  SubSeq(content, i, e)

\* if (score > 0): only leads with a positive score are included
\* (variant that keeps a score of 0: QualifiesMutant)
QualifiesMutant(score) == score >= 0
Qualifies(score) == score > 0

\* the object pushed for post p, r being scorePost's result on its content
LeadOf(p, content, r) ==
  [platform |-> "Reddit",
   title |-> IF Truthy(p.title) /\ Slice(p.title, TITLE_MAX) # <<>>
             THEN Slice(p.title, TITLE_MAX)
             ELSE <<"U", "n", "t", "i", "t", "l", "e", "d">>,
   content |-> IF Truthy(p.selftext) THEN Slice(p.selftext, CONTENT_MAX) ELSE <<>>,
   author |-> IF p.author = "" THEN "unknown" ELSE p.author,
   url |-> "https://reddit.com" \o p.permalink,
   budget |-> BudgetMatch(content),
   score |-> r.score,
   company |-> r.company,
   location |-> r.location,
   techStack |-> r.techStack]

ToLead(p, now) == LeadOf(p, PostContent(p), scorePost(PostContent(p), p.created_utc, now))

\* if (score > 0) results.push(lead)
Push(results, lead) == IF Qualifies(lead.score) THEN Append(results, lead) ELSE results

\* the for (const p of posts) loop: the items are taken in order and the loop
\* ends at the first child without data (p is undefined and p.title throws)
RECURSIVE PushPosts(_, _, _)
PushPosts(results, children, now) ==
  IF children = <<>> \/ Head(children).kind # "post" THEN results
  ELSE PushPosts(Push(results, ToLead(Head(children).data, now)), Tail(children), now)

\* whether the try block of one source ends in the catch (or in the continue of
\* a response that is not ok)
SourceFails(r) ==
  \/ r.kind \in {"neterr", "status", "badjson"}
  \/ r.kind = "json" /\ r.shape \in {"null", "notlist"}
  \/ r.kind = "json" /\ r.shape = "list"
       /\ \E k \in 1..Len(r.children) : r.children[k].kind # "post"

\* the body of for (const sub of subs) on the response r of the source's fetch:
\*   neterr  - fetch rejects: catch
\*   status  - !r.ok: continue
\*   badjson - r.json() rejects: catch
\*   json    - by the shape of the body j:
\*     null    - j.data throws: catch
\*     nodata  - j.data?.children is undefined: posts = []
\*     notlist - children has no map: catch
\*     list    - a null child makes the map throw before any post is pushed;
\*               a child without data makes the loop throw when it is reached
FetchSub(results, r, now) ==
  IF r.kind # "json" \/ r.shape # "list" THEN results
  ELSE IF \E k \in 1..Len(r.children) : r.children[k].kind = "null" THEN results
  ELSE PushPosts(results, r.children, now)

\* the source handled after source i of n: the catch is inside the loop
\* (variant with the catch around the loop: NextSubMutant)
NextSubMutant(i, n, failed) == IF failed THEN n + 1 ELSE i + 1
NextSub(i, n, failed) == i + 1

\* fetchReddit(subsCsv), the source at position i answering rs[i]
RECURSIVE FetchFrom(_, _, _, _, _)
FetchFrom(i, n, rs, results, now) ==
  IF i > n THEN results
  ELSE FetchFrom(NextSub(i, n, SourceFails(rs[i])), n, rs,
                 FetchSub(results, rs[i], now), now)

fetchReddit(subsCsv, rs, now) == FetchFrom(1, Len(ParseSubs(subsCsv)), rs, <<>>, now)

-----------------------------------------------------------------------------
(* db.js: the leads table and the two statements on it *)

MS_PER_SECOND == 1000

\* created_ts default: (extract(epoch from now()) * 1000)::bigint in Postgres,
\* strftime('%s','now') * 1000 in SQLite (whole seconds)
CreatedTs(pg, nowMs) ==
  IF pg THEN nowMs ELSE (nowMs \div MS_PER_SECOND) * MS_PER_SECOND

\* unique (platform, url): a row of the table has the pair of lead
\* (variant without the constraint: ConflictsMutant)
ConflictsMutant(table, lead) == FALSE
Conflicts(table, lead) ==
  \E k \in 1..Len(table) :
    table[k].platform = lead.platform /\ table[k].url = lead.url

\* what the statement does on a conflict: "on conflict (platform, url) do
\* nothing" in Postgres, "unique (platform, url) on conflict ignore" in SQLite
\* (variant with a plain insert, which aborts on a conflict: OnConflictMutant)
OnConflictMutant(pg) == "abort"
OnConflict(pg) == IF pg THEN "do nothing" ELSE "ignore"

\* the columns insertLead names; company, location and techStack are not stored
NewRow(lead, pg, nowMs) ==
  [platform |-> lead.platform, title |-> lead.title, content |-> lead.content,
   author |-> lead.author, url |-> lead.url, budget |-> lead.budget,
   score |-> lead.score, created_ts |-> CreatedTs(pg, nowMs)]

\* stmt.insertLead.run(lead): the table afterwards, .changes, and the error raised
\* (variant that replaces the stored row of the pair: insertLeadMutant)
insertLeadMutant(table, lead, pg, nowMs) ==
  [leads |-> Append(SelectSeq(table, LAMBDA row : row.platform # lead.platform \/ row.url # lead.url),
                    NewRow(lead, pg, nowMs)),
   changes |-> 1, error |-> "none"]
insertLead(table, lead, pg, nowMs) ==
  IF Conflicts(table, lead)
  THEN IF OnConflict(pg) \in {"do nothing", "ignore"}
       THEN [leads |-> table, changes |-> 0, error |-> "none"]
       ELSE [leads |-> table, changes |-> 0, error |-> "unique_violation"]
  ELSE [leads |-> Append(table, NewRow(lead, pg, nowMs)), changes |-> 1, error |-> "none"]

\* the orders "order by created_ts desc" allows: rows of equal created_ts may
\* come in any order
Orderings(table) ==
  {f \in [1..Len(table) -> 1..Len(table)] :
     /\ \A a, b \in 1..Len(table) : a # b => f[a] # f[b]
     /\ \A a, b \in 1..Len(table) :
          a < b => table[f[a]].created_ts >= table[f[b]].created_ts}

\* limit n offset m on an ordered result: a negative limit is an error in
\* Postgres ("LIMIT must not be negative") and no limit at all in SQLite
LimitOffset(rows, limit, offset) ==
  LET from == offset + 1
      to == IF limit < 0 THEN Len(rows) ELSE Min({Len(rows), offset + limit})
  IN  SubSeq(rows, from, to)

\* stmt.latestLeads.all(limit, offset): the results the statement may return;
\* error is TRUE when the statement fails
latestLeads(table, limit, offset, pg) ==
  IF pg /\ (limit < 0 \/ offset < 0)
  THEN {[error |-> TRUE, rows |-> <<>>]}
  ELSE {[error |-> FALSE,
         rows |-> LimitOffset([k \in 1..Len(table) |-> table[f[k]]],
                              limit, IF offset < 0 THEN 0 ELSE offset)] :
          f \in Orderings(table)}

-----------------------------------------------------------------------------
(* api/index.js: GET /api/leads *)

DEFAULT_LIMIT == 50
MAX_LIMIT == 100
DEFAULT_OFFSET == 0

\* Math.min(parseInt(req.query.limit || '50', 10), 100)
LimitParam(q) == Min({IF q = NoNumber THEN DEFAULT_LIMIT ELSE q[1], MAX_LIMIT})

\* Math.max(parseInt(req.query.offset || '0', 10), 0)
OffsetParam(q) == Max({IF q = NoNumber THEN DEFAULT_OFFSET ELSE q[1], 0})

-----------------------------------------------------------------------------
(* server.js: harvest() *)

\* prisma.lead.create({data}) on the leads table: the row is created, or the
\* call rejects with P2002 (the unique pair exists) or, when the store cannot
\* be reached (down), with another error
prismaLeadCreate(table, lead, pg, nowMs, down) ==
  LET r == insertLead(table, lead, pg, nowMs)
  IN  IF down THEN [leads |-> table, changes |-> 0, error |-> "unavailable", code |-> "P1001"]
      ELSE IF r.changes = 0
      THEN [leads |-> r.leads, changes |-> 0, error |-> r.error, code |-> "P2002"]
      ELSE [leads |-> r.leads, changes |-> 1, error |-> "none", code |-> "none"]

\* try { ... create ... } catch (e) { if (e.code !== 'P2002') console.error(...) }
\* around each insert: every error is caught, none is thrown again
\* (variant without the inner try: InsertTryCatchesMutant)
InsertTryCatchesMutant(code) == code = "P2002"
InsertTryCatches(code) == TRUE

\* try { ... } catch (e) { console.error('harvest() error:', e) } around the body
\* (variant without the outer try: HarvestTryCatchesMutant)
HarvestTryCatchesMutant(code) == FALSE
HarvestTryCatches(code) == TRUE

\* where an error raised at site ("fetch" or "insert") ends: the loop goes on
\* ("continue"), the harvest ends ("end"), or the promise of harvest() rejects
\* with nobody awaiting it ("escape")
Propagate(site, code) ==
  IF site = "insert" /\ InsertTryCatches(code) THEN "continue"
  ELSE IF HarvestTryCatches(code) THEN "end"
  ELSE "escape"

\* setInterval(harvest, 5 * 60 * 1000): the callback runs whatever the state
\* of the earlier runs (running: the runs that have not completed)
TimerMayFire(running) == TRUE

-----------------------------------------------------------------------------
(* Bounds and inputs of the model *)

\* the texts scored are concatenations of at most MaxFragments fragments
MaxFragments == 2

\* Date.now() / 1000 while the model runs: five hours after the epoch
EvalInstant == 5 * SECONDS_PER_HOUR

Fragments ==
  { <<"$", "5">>, <<"$">>, <<"E", "T", "H">>, <<"a", "s", "a", "p">>,
    <<"U", "n", "p", "a", "i", "d">>, <<"e", "x", "p", "o", "s", "u", "r", "e">>,
    <<"R", "e", "a", "c", "t">>, <<" ">>, <<"r", "e", "m", "o", "t", "e">>,
    <<"a", "t", " ", "A", "c", "m", "e", " ", "I", "n", "c", ".">> }

ScenarioHire ==
  <<"L", "o", "o", "k", "i", "n", "g", " ", "f", "o", "r", " ", "a", " ",
    "R", "e", "a", "c", "t", " ", "d", "e", "v", " ", "A", "S", "A", "P", ",", " ",
    "$", "5", "0", "/", "h", "r", ",", " ", "r", "e", "m", "o", "t", "e", ",", " ",
    "a", "t", " ", "A", "c", "m", "e", " ", "I", "n", "c", ".">>

ScenarioUnpaid ==
  <<"U", "n", "p", "a", "i", "d", " ", "R", "e", "a", "c", "t", " ", "g", "i", "g",
    ",", " ", "e", "x", "p", "o", "s", "u", "r", "e", " ", "o", "n", "l", "y">>

ScoreTexts ==
  {Concat(fs) : fs \in UNION {[1..n -> Fragments] : n \in 0..MaxFragments}}
    \cup {ScenarioHire, ScenarioUnpaid, UNDEFINED, NULL}

\* absent, zero, one second after the epoch, and the instants around the
\* four-hour threshold
ScoreStamps ==
  {NoNumber, Num(0), Num(1), Num(EvalInstant),
   Num(EvalInstant - RECENT_HOURS * SECONDS_PER_HOUR + 1),
   Num(EvalInstant - RECENT_HOURS * SECONDS_PER_HOUR),
   Num(EvalInstant - RECENT_HOURS * SECONDS_PER_HOUR - 1)}

NONE == [none |-> TRUE]

\* the harvest runs of the process: the run at start-up and the timer's
MaxHarvests == 2
Harvests == 1..MaxHarvests

\* the wall clock advances at most MaxAdvances times, by 1 ms or by 1 s
MaxAdvances == 1

\* at most MaxChildren children in a listing
MaxChildren == 2

\* REDDIT_SUBS = 'forhire,jobsforcrypto'
REDDIT_SUBS ==
  <<"f", "o", "r", "h", "i", "r", "e", ",",
    "j", "o", "b", "s", "f", "o", "r", "c", "r", "y", "p", "t", "o">>

\* posts: created_utc 1 is long ago, EvalInstant is now
PostPay ==
  [title |-> <<"$", "5">>, selftext |-> <<"j", "o", "b">>, author |-> "ann",
   permalink |-> "/r/forhire/1", created_utc |-> Num(1)]
PostUrgent ==
  [title |-> <<"a", "s", "a", "p">>, selftext |-> UNDEFINED, author |-> "",
   permalink |-> "/r/jobsforcrypto/2", created_utc |-> Num(EvalInstant)]
PostPlain ==
  [title |-> <<"h", "i">>, selftext |-> <<>>, author |-> "bob",
   permalink |-> "/r/forhire/3", created_utc |-> Num(1)]
PostUnpaid ==
  [title |-> <<"u", "n", "p", "a", "i", "d">>, selftext |-> <<"$", "5">>, author |-> "cy",
   permalink |-> "/r/jobsforcrypto/4", created_utc |-> Num(EvalInstant)]

Child(p) == [kind |-> "post", data |-> p]
NoDataChild == [kind |-> "nodata", data |-> PostPlain]
NullChild == [kind |-> "null", data |-> PostPlain]

Failure(kind) == [kind |-> kind, shape |-> "none", children |-> <<>>]
Body(shape) == [kind |-> "json", shape |-> shape, children |-> <<>>]
Listing(children) == [kind |-> "json", shape |-> "list", children |-> children]

\* what the two configured sources may answer in the harvests of the process:
\* each is unreachable or lists its two posts
HarvestResponses ==
  {rs \in [1..2 -> {Failure("neterr"),
                    Listing(<<Child(PostPay), Child(PostPlain)>>),
                    Listing(<<Child(PostUnpaid), Child(PostUrgent)>>)}] :
     /\ rs[1] # Listing(<<Child(PostUnpaid), Child(PostUrgent)>>)
     /\ rs[2] # Listing(<<Child(PostPay), Child(PostPlain)>>)}

\* what a source may answer to one call of fetchReddit
FetchChildren == {Child(PostPay), Child(PostPlain)}
FetchResponses ==
  {Failure("neterr"), Failure("status"), Failure("badjson"),
   Body("null"), Body("nodata"), Body("notlist"),
   Listing(<<Child(PostPay), NullChild>>),
   Listing(<<Child(PostPay), NoDataChild>>),
   Listing(<<NoDataChild, Child(PostPay)>>)}
    \cup {Listing(cs) : cs \in UNION {[1..n -> FetchChildren] : n \in 0..MaxChildren}}

\* the configured csv strings of fetchReddit: "a,b,c", " a,,b " and "a,a"
FetchConfigs ==
  {<<"a", ",", "b", ",", "c">>, <<" ", "a", ",", ",", "b", " ">>, <<"a", ",", "a">>}

\* the ?limit= and ?offset= of a request: absent, or a decimal number
LimitQueries == {NoNumber, Num(-1), Num(1), Num(MAX_LIMIT + 1)}
OffsetQueries == {NoNumber, Num(-1), Num(1)}

-----------------------------------------------------------------------------
(* One call scorePost({content, created_utc}) on a drawn input *)

ScoreIdle ==
  /\ sPc = "off" /\ sContent = <<>> /\ sCreated = NoNumber /\ sResult = NONE

ScoreInit ==
  /\ sPc = "call"
  /\ sContent \in ScoreTexts
  /\ sCreated \in ScoreStamps
  /\ sResult = NONE

ScoreCall ==
  /\ sPc = "call"
  /\ sResult' = scorePost(sContent, sCreated, EvalInstant)
  /\ sPc' = IF sResult'.threw THEN "threw" ELSE "returned"
  /\ UNCHANGED <<sContent, sCreated>>
  /\ UNCHANGED <<fetchVars, harvestVars, storeVars, resp, backendVars>>

-----------------------------------------------------------------------------
(* One call fetchReddit(subsCsv), one source per step *)

FetchIdle ==
  /\ fPc = "off" /\ fCsv = <<>> /\ fIdx = 0 /\ fResults = <<>> /\ fResponses = <<>>

FetchInit ==
  /\ fPc = "loop"
  /\ fCsv \in FetchConfigs
  /\ fIdx = 1
  /\ fResults = <<>>
  /\ fResponses = <<>>

\* one turn of for (const sub of subs): the fetch of source fIdx is answered by r;
\* fResponses logs the fetches issued
FetchOne ==
  /\ fPc = "loop"
  /\ \E r \in FetchResponses :
       LET n == Len(ParseSubs(fCsv))
           next == NextSub(fIdx, n, SourceFails(r))
       IN  /\ fResponses' = Append(fResponses, [sub |-> ParseSubs(fCsv)[fIdx], at |-> fIdx, r |-> r])
           /\ fResults' = FetchSub(fResults, r, EvalInstant)
           /\ fIdx' = next
           /\ fPc' = IF next > n THEN "returned" ELSE "loop"
  /\ UNCHANGED fCsv
  /\ UNCHANGED <<scoreVars, harvestVars, storeVars, resp, backendVars>>

-----------------------------------------------------------------------------
(* The process of server.js: start-up, timer, harvest runs, store, listing *)

HarvestUrls ==
  {"https://reddit.com" \o p.permalink : p \in {PostPay, PostUrgent, PostPlain, PostUnpaid}}

\* what fetchReddit(REDDIT_SUBS) may return: one answer per configured source
HarvestFinds == {fetchReddit(REDDIT_SUBS, rs, EvalInstant) : rs \in HarvestResponses}

PipelineIdle ==
  /\ started = FALSE
  /\ alive = TRUE
  /\ pc = [h \in Harvests |-> "idle"]
  /\ reddit = [h \in Harvests |-> <<>>]
  /\ idx = [h \in Harvests |-> 0]
  /\ newRows = [h \in Harvests |-> 0]
  /\ added = [h \in Harvests |-> 0]
  /\ logged = NONE
  /\ leads = <<>>
  /\ clock = 0
  /\ okBy = [u \in HarvestUrls |-> 0]
  /\ last = NONE
  /\ resp = NONE

\* the runs that have started and not completed
Running == {h \in Harvests : pc[h] \in {"fetching", "inserting"}}

\* harvest(); at the end of the file: the immediate run at process start
Startup ==
  /\ ~started
  /\ alive
  /\ started' = TRUE
  /\ pc' = [pc EXCEPT ![1] = "fetching"]
  /\ last' = NONE
  /\ resp' = NONE
  /\ logged' = NONE
  /\ UNCHANGED <<alive, reddit, idx, newRows, added, usePg, leads, clock, okBy>>
  /\ UNCHANGED <<scoreVars, fetchVars, backendVars>>

\* the interval elapses: the next run starts
TimerFire ==
  /\ started
  /\ alive
  /\ TimerMayFire(Running)
  /\ \E h \in Harvests :
       /\ pc[h] = "idle"
       /\ \A g \in Harvests : g < h => pc[g] # "idle"
       /\ pc' = [pc EXCEPT ![h] = "fetching"]
  /\ last' = NONE
  /\ resp' = NONE
  /\ logged' = NONE
  /\ UNCHANGED <<started, alive, reddit, idx, newRows, added, usePg, leads, clock, okBy>>
  /\ UNCHANGED <<scoreVars, fetchVars, backendVars>>

\* await fetchReddit(REDDIT_SUBS) resolves; with no lead the loop is empty and
\* the run is over (nothing is logged when newRows is 0)
HarvestFetch(h) ==
  /\ alive
  /\ pc[h] = "fetching"
  /\ \E found \in HarvestFinds :
       /\ reddit' = [reddit EXCEPT ![h] = found]
       /\ idx' = [idx EXCEPT ![h] = IF found = <<>> THEN 0 ELSE 1]
       /\ pc' = [pc EXCEPT ![h] = IF found = <<>> THEN "done" ELSE "inserting"]
       /\ logged' = IF found = <<>> THEN [h |-> h, newRows |-> 0, added |-> 0] ELSE NONE
  /\ newRows' = [newRows EXCEPT ![h] = 0]
  /\ added' = [added EXCEPT ![h] = 0]
  /\ last' = NONE
  /\ resp' = NONE
  /\ UNCHANGED <<started, alive, usePg, leads, clock, okBy>>
  /\ UNCHANGED <<scoreVars, fetchVars, backendVars>>

\* await fetchReddit(REDDIT_SUBS) rejects: encodeURIComponent(sub) stands
\* before the try of its loop and throws a URIError on a malformed identifier
HarvestFetchRejects(h) ==
  /\ alive
  /\ pc[h] = "fetching"
  /\ LET to == Propagate("fetch", "URIError")
     IN  /\ pc' = [pc EXCEPT ![h] = IF to = "escape" THEN "rejected" ELSE "done"]
         /\ alive' = (to # "escape")
  /\ last' = NONE
  /\ resp' = NONE
  /\ logged' = NONE
  /\ UNCHANGED <<started, reddit, idx, newRows, added, usePg, leads, clock, okBy>>
  /\ UNCHANGED <<scoreVars, fetchVars, backendVars>>

\* await prisma.lead.create(...) of the lead at idx[h] settles, and the loop
\* goes on to the next lead or the run ends (console.log of newRows)
HarvestInsert(h) ==
  /\ alive
  /\ pc[h] = "inserting"
  /\ \E down \in BOOLEAN :
       LET lead == reddit[h][idx[h]]
           r == prismaLeadCreate(leads, lead, usePg, clock, down)
           to == IF r.code = "none" THEN "continue" ELSE Propagate("insert", r.code)
           count == IF r.code = "none" THEN newRows[h] + 1 ELSE newRows[h]
           over == to # "continue" \/ idx[h] = Len(reddit[h])
       IN  /\ leads' = r.leads
           /\ okBy' = [okBy EXCEPT ![lead.url] = @ + r.changes]
           /\ last' = [h |-> h, url |-> lead.url, existed |-> Conflicts(leads, lead),
                       changes |-> r.changes, error |-> r.error, code |-> r.code,
                       rowsBefore |-> Len(leads), at |-> idx[h], batch |-> Len(reddit[h])]
           /\ newRows' = [newRows EXCEPT ![h] = IF over THEN 0 ELSE count]
           /\ added' = [added EXCEPT ![h] = IF over THEN 0 ELSE @ + r.changes]
           /\ alive' = (to # "escape")
           /\ pc' = [pc EXCEPT ![h] = IF to = "escape" THEN "rejected"
                                      ELSE IF over THEN "done" ELSE "inserting"]
           /\ idx' = [idx EXCEPT ![h] = IF over THEN 0 ELSE @ + 1]
           /\ reddit' = [reddit EXCEPT ![h] = IF over THEN <<>> ELSE @]
           /\ logged' = IF to = "continue" /\ over
                       THEN [h |-> h, newRows |-> count, added |-> added[h] + r.changes]
                       ELSE NONE
  /\ resp' = NONE
  /\ UNCHANGED <<started, usePg, clock>>
  /\ UNCHANGED <<scoreVars, fetchVars, backendVars>>

\* time passes: 1 ms or 1 s
Advance ==
  /\ (clock \div MS_PER_SECOND) + (clock % MS_PER_SECOND) < MaxAdvances
  /\ \E d \in {1, MS_PER_SECOND} : clock' = clock + d
  /\ last' = NONE
  /\ resp' = NONE
  /\ logged' = NONE
  /\ UNCHANGED <<usePg, leads, okBy>>
  /\ UNCHANGED <<scoreVars, fetchVars, backendVars, started, alive, pc, reddit, idx, newRows, added>>

\* GET /api/leads?limit=..&offset=..: findMany({take, skip, orderBy: createdAt
\* desc}) is the store's latestLeads; a failing query is answered with 500
GetLeads ==
  /\ alive
  /\ \E lq \in LimitQueries, oq \in OffsetQueries :
       \E res \in latestLeads(leads, LimitParam(lq), OffsetParam(oq), usePg) :
         resp' = [limitQuery |-> lq, offsetQuery |-> oq,
                  status |-> IF res.error THEN 500 ELSE 200,
                  rows |-> res.rows, stored |-> Len(leads)]
  /\ last' = NONE
  /\ logged' = NONE
  /\ UNCHANGED <<usePg, leads, clock, okBy>>
  /\ UNCHANGED <<scoreVars, fetchVars, backendVars, started, alive, pc, reddit, idx, newRows, added>>

-----------------------------------------------------------------------------
(* db.js: the calls of one caller on the stmt interface, run on the Postgres
   backend and on the SQLite backend side by side *)

\* the leads the caller inserts
BackendLeads == {ToLead(PostPay, EvalInstant), ToLead(PostUrgent, EvalInstant)}

\* what a call hands to its caller: the Postgres methods go through the async
\* helpers one/many/exec and return a promise, the prepared statements of
\* better-sqlite3 return the value itself
Returned(pg, error, changes, rows) ==
  [promise |-> pg, error |-> error, changes |-> changes, rows |-> rows]

\* await x: the value of a promise, or x itself
Awaited(x) == [x EXCEPT !.promise = FALSE]

BackendsIdle ==
  /\ bPg = <<>>
  /\ bLite = <<>>
  /\ bClock = 0
  /\ bSeen = NONE

\* stmt.insertLead.run(lead) on both backends
BackendInsert ==
  /\ \E lead \in BackendLeads :
       /\ bPg' = insertLead(bPg, lead, TRUE, bClock).leads
       /\ bLite' = insertLead(bLite, lead, FALSE, bClock).leads
       /\ bSeen' = [call |-> "insertLead",
                    pg |-> Returned(TRUE, insertLead(bPg, lead, TRUE, bClock).error # "none",
                                    insertLead(bPg, lead, TRUE, bClock).changes, <<>>),
                    lite |-> Returned(FALSE, insertLead(bLite, lead, FALSE, bClock).error # "none",
                                      insertLead(bLite, lead, FALSE, bClock).changes, <<>>)]
  /\ UNCHANGED bClock
  /\ UNCHANGED <<scoreVars, fetchVars, harvestVars, storeVars, resp>>

\* stmt.latestLeads.all(limit, offset) on both backends, with the limit and the
\* offset of the /api/leads handler
BackendLatest ==
  /\ \E lq \in LimitQueries, oq \in OffsetQueries :
       \E p \in latestLeads(bPg, LimitParam(lq), OffsetParam(oq), TRUE),
          l \in latestLeads(bLite, LimitParam(lq), OffsetParam(oq), FALSE) :
         bSeen' = [call |-> "latestLeads",
                   pg |-> Returned(TRUE, p.error, 0, p.rows),
                   lite |-> Returned(FALSE, l.error, 0, l.rows)]
  /\ UNCHANGED <<bPg, bLite, bClock>>
  /\ UNCHANGED <<scoreVars, fetchVars, harvestVars, storeVars, resp>>

\* time passes between two calls: 1 ms or 1 s
BackendAdvance ==
  /\ (bClock \div MS_PER_SECOND) + (bClock % MS_PER_SECOND) < MaxAdvances
  /\ \E d \in {1, MS_PER_SECOND} : bClock' = bClock + d
  /\ bSeen' = NONE
  /\ UNCHANGED <<bPg, bLite>>
  /\ UNCHANGED <<scoreVars, fetchVars, harvestVars, storeVars, resp>>

Init ==
  /\ ScoreIdle
  /\ FetchIdle
  /\ PipelineIdle
  /\ BackendsIdle
  /\ usePg \in BOOLEAN

\* the steps of the harvest runs
NextHarvest ==
  \/ Startup
  \/ TimerFire
  \/ \E h \in Harvests : HarvestFetch(h)
  \/ \E h \in Harvests : HarvestFetchRejects(h)
  \/ \E h \in Harvests : HarvestInsert(h)

Next ==
  \/ NextHarvest
  \/ Advance
  \/ GetLeads

Spec == Init /\ [][Next]_vars

\* the runs alone; every fetch and every store call eventually returns or throws
FairSpec ==
  /\ Init /\ [][NextHarvest]_vars
  /\ \A h \in Harvests : WF_vars(HarvestFetch(h) \/ HarvestFetchRejects(h))
  /\ \A h \in Harvests : WF_vars(HarvestInsert(h))

\* scorePost alone, on every drawn text and timestamp
InitScore == ScoreInit /\ FetchIdle /\ PipelineIdle /\ BackendsIdle /\ usePg = FALSE
NextScore == ScoreCall
SpecScore == InitScore /\ [][NextScore]_vars

\* fetchReddit alone, on every drawn configuration and answer
InitFetch == FetchInit /\ ScoreIdle /\ PipelineIdle /\ BackendsIdle /\ usePg = FALSE
NextFetch == FetchOne
SpecFetch == InitFetch /\ [][NextFetch]_vars

\* the two backends of db.js alone, under the same calls
InitBackends == BackendsIdle /\ ScoreIdle /\ FetchIdle /\ PipelineIdle /\ usePg = FALSE
NextBackends ==
  \/ BackendInsert
  \/ BackendLatest
  \/ BackendAdvance
SpecBackends == InitBackends /\ [][NextBackends]_vars

-----------------------------------------------------------------------------
(* Properties of the store (db.js) under the harvests of server.js *)

\* the rows of the store that hold the pair (platform, url)
RowsOf(platform, url) ==
  {k \in 1..Len(leads) : leads[k].platform = platform /\ leads[k].url = url}

\* C1: the store holds at most one lead per (platform, url) pair; an insert the
\* store answers adds one row and reports one change when the pair is new, and
\* adds no row, reports no change and raises no error when the pair is stored
C1_UniquePairIdempotentInsert ==
  /\ \A a, b \in 1..Len(leads) :
       (leads[a].platform = leads[b].platform /\ leads[a].url = leads[b].url) => a = b
  /\ (last # NONE /\ last.error # "unavailable") =>
       IF last.existed
       THEN last.changes = 0 /\ Len(leads) = last.rowsBefore /\ last.error = "none"
       ELSE last.changes = 1 /\ Len(leads) = last.rowsBefore + 1 /\ last.error = "none"

\* a pair inserted before is inserted again: no change, the one row stays
C1_SecondInsertSeen ==
  /\ last # NONE
  /\ last.existed
  /\ last.changes = 0
  /\ Cardinality(RowsOf("Reddit", last.url)) = 1

\* C2: whatever the interleaving of the runs that insert the same pair, one
\* insert of the pair succeeds, as many rows hold the pair as inserts succeeded,
\* and no insert ends with a violation of the unique constraint
C2_ConcurrentInsertsOneWinner ==
  /\ \A u \in HarvestUrls :
       okBy[u] <= 1 /\ okBy[u] = Cardinality(RowsOf("Reddit", u))
  /\ (last # NONE /\ last.error # "unavailable") =>
       okBy[last.url] = 1 /\ last.error # "unique_violation"

\* two runs in flight hold the same lead, and the insert of one of them has
\* just found the pair stored by the other
C2_RaceSeen ==
  /\ last # NONE
  /\ last.existed
  /\ last.changes = 0
  /\ okBy[last.url] = 1
  /\ \E g \in Harvests :
       /\ g # last.h
       /\ pc[g] = "inserting"
       /\ pc[last.h] = "inserting"
       /\ \E k \in 1..Len(reddit[g]) : reddit[g][k].url = last.url

\* C4: every stored lead has a score above 0
C4_StoredLeadsScorePositive ==
  \A k \in 1..Len(leads) : leads[k].score > 0

\* the lead of the listing that also holds the disqualified post is stored, and
\* so is the lead of the listing that also holds the post scored 0
C4_BothListingsStored ==
  /\ \E k \in 1..Len(leads) : leads[k].url = "https://reddit.com" \o PostUrgent.permalink
  /\ \E k \in 1..Len(leads) : leads[k].url = "https://reddit.com" \o PostPay.permalink

-----------------------------------------------------------------------------
(* Properties of scorePost (scoring.js) *)

\* the text of the call, as the regular expressions see it
ScoredText == ToText(sContent)

\* word occurs in text, the letter case of the text being ignored
OccursAnyCase(word, text) ==
  \E i \in 1..Len(text) :
    /\ i + Len(word) - 1 <= Len(text)
    /\ \A k \in 1..Len(word) : ToLower(text[i + k - 1]) = word[k]

HasDisqualifier(text) ==
  \/ OccursAnyCase(<<"u", "n", "p", "a", "i", "d">>, text)
  \/ OccursAnyCase(<<"e", "x", "p", "o", "s", "u", "r", "e">>, text)

\* a "$" followed by a digit, or eth or btc in any letter case
HasPaySignal(text) ==
  \/ \E i \in 1..Len(text) - 1 : text[i] = "$" /\ text[i + 1] \in Digits
  \/ OccursAnyCase(<<"e", "t", "h">>, text)
  \/ OccursAnyCase(<<"b", "t", "c">>, text)

\* C3: a text that holds unpaid or exposure in any letter case is scored -999
\* with company null, location null and an empty techStack, whatever else it holds
C3_DisqualifierOverrides ==
  (sPc # "call" /\ HasDisqualifier(ScoredText)) =>
    /\ sPc = "returned"
    /\ sResult.score = -999
    /\ sResult.company = NULL
    /\ sResult.location = NULL
    /\ sResult.techStack = <<>>

\* a text with a pay signal whose disqualifier has a capital letter is scored -999
C3_CapitalisedUnpaidWithPay ==
  /\ sPc = "returned"
  /\ HasPaySignal(ScoredText)
  /\ HasDisqualifier(ScoredText)
  /\ ~Contains(<<"u", "n", "p", "a", "i", "d">>, ScoredText)
  /\ ~Contains(<<"e", "x", "p", "o", "s", "u", "r", "e">>, ScoredText)
  /\ sResult.score = -999

-----------------------------------------------------------------------------
(* Properties of fetchReddit (sources/reddit.js) *)

\* a source that fails by a transport error, a status that is not ok or a body
\* that is not JSON, and a source that succeeds with a listing of posts
SourceFailed(r) == r.kind \in {"neterr", "status", "badjson"}
SourceSucceeded(r) ==
  /\ r.kind = "json"
  /\ r.shape = "list"
  /\ \A k \in 1..Len(r.children) : r.children[k].kind = "post"

\* the normalised posts of a listing that score above 0, in the listing's order
KeptLead(lead) == IF lead.score > 0 THEN <<lead>> ELSE <<>>
RECURSIVE QualifyingLeads(_)
QualifyingLeads(children) ==
  IF children = <<>> THEN <<>>
  ELSE KeptLead(ToLead(Head(children).data, EvalInstant)) \o QualifyingLeads(Tail(children))

SourceLeads(r) == IF SourceSucceeded(r) THEN QualifyingLeads(r.children) ELSE <<>>

\* C5: when each source so far has failed or succeeded, the results are the
\* qualifying posts of the sources that succeeded, in the order of the sources,
\* those after a failed source included; the sources are fetched one after the
\* other and the call returns when the last configured source has been fetched
C5_SourceFailureIsolated ==
  (fPc # "off" /\ \A k \in 1..Len(fResponses) :
                    SourceFailed(fResponses[k].r) \/ SourceSucceeded(fResponses[k].r)) =>
    /\ fResults = Concat([k \in 1..Len(fResponses) |-> SourceLeads(fResponses[k].r)])
    /\ \A k \in 1..Len(fResponses) : fResponses[k].at = k
    /\ (fPc = "returned") = (Len(fResponses) = Len(ParseSubs(fCsv)))

\* three sources, the first or the second answers with a status that is not ok,
\* and the posts of the other two are returned
C5_OneOfThreeFails ==
  /\ fPc = "returned"
  /\ Len(fResponses) = 3
  /\ \E k \in 1..2 :
       /\ fResponses[k].r = Failure("status")
       /\ \A j \in (1..3) \ {k} : fResponses[j].r = Listing(<<Child(PostPay)>>)
  /\ fResults = <<ToLead(PostPay, EvalInstant), ToLead(PostPay, EvalInstant)>>

-----------------------------------------------------------------------------
(* Properties of the harvest runs (server.js) *)

\* C6: at most one harvest run is in flight at a time: no run starts while an
\* earlier run of the process has not completed
C6_OneHarvestAtATime == Cardinality(Running) <= 1

\* C7: no error leaves harvest(): the process stays alive and no run ends
\* rejected, whatever the source client and the store throw; the timer can start
\* the next run as long as a run is left; and with every fetch and every store
\* call settling, every run that has started completes
C7_HarvestAlwaysCompletes ==
  /\ [](alive /\ \A h \in Harvests : pc[h] # "rejected")
  /\ []((started /\ \E h \in Harvests : pc[h] = "idle") => ENABLED TimerFire)
  /\ \A h \in Harvests : (pc[h] \in {"fetching", "inserting"}) ~> (pc[h] = "done")

\* a run whose last store call failed for an outage has completed, another run
\* has completed too, and the process is alive
C7_OutageSurvived ==
  /\ alive
  /\ last # NONE
  /\ last.error = "unavailable"
  /\ pc[last.h] = "done"
  /\ \E g \in Harvests : g # last.h /\ pc[g] = "done"

-----------------------------------------------------------------------------
(* Properties of GET /api/leads *)

\* C8: a listing returns at most min(limit, 100) rows, limit being 50 when the
\* request gives none, a negative offset counts as 0, and no row is returned
\* when the offset is at least the number of stored rows
C8_ListingWithinLimit ==
  (resp # NONE /\ resp.status = 200) =>
    LET limit == IF resp.limitQuery = NoNumber THEN 50 ELSE resp.limitQuery[1]
        offset == IF resp.offsetQuery = NoNumber \/ resp.offsetQuery[1] < 0
                  THEN 0 ELSE resp.offsetQuery[1]
    IN  /\ Len(resp.rows) <= Max({0, Min({limit, 100})})
        /\ Len(resp.rows) <= Max({0, resp.stored - offset})
        /\ offset >= resp.stored => resp.rows = <<>>

-----------------------------------------------------------------------------
(* Properties of the score *)

\* what the signals other than recency add to the score of the call
OtherThanRecency ==
  (IF HasPaySignal(ScoredText) THEN 3 ELSE 0)
    + (IF UrgencyRegex(ScoredText) THEN 2 ELSE 0)
    + Len(sResult.techStack)
    + (IF sResult.company # NULL THEN 1 ELSE 0)
    + (IF sResult.location # NULL THEN 1 ELSE 0)

\* C9: for a text that is not disqualified the recency bonus of 1 is added when
\* created_utc is the evaluation instant, is not added when created_utc is more
\* than 4 hours before it (0 and small values included), and is added when
\* created_utc is absent
C9_RecencyBonus ==
  (sPc = "returned" /\ ~HasDisqualifier(ScoredText)) =>
    /\ sCreated = Num(EvalInstant) => sResult.score = OtherThanRecency + 1
    /\ (sCreated # NoNumber /\ sCreated[1] < EvalInstant - 4 * 3600) =>
         sResult.score = OtherThanRecency
    /\ sCreated = NoNumber => sResult.score = OtherThanRecency + 1

\* what the signals other than pay add to the score of the call
OtherThanPay ==
  (IF UrgencyRegex(ScoredText) THEN 2 ELSE 0)
    + (IF IsRecent(sCreated, EvalInstant) THEN 1 ELSE 0)
    + Len(sResult.techStack)
    + (IF sResult.company # NULL THEN 1 ELSE 0)
    + (IF sResult.location # NULL THEN 1 ELSE 0)

\* C10: a text with a pay signal and without unpaid or exposure is scored 3
\* plus what the other signals add, so at least 3
C10_PayBonus ==
  (sPc # "call" /\ HasPaySignal(ScoredText) /\ ~HasDisqualifier(ScoredText)) =>
    /\ sPc = "returned"
    /\ sResult.score >= 3
    /\ sResult.score = 3 + OtherThanPay

\* a text whose only pay signal is a token, with another signal, is scored
C10_TokenPaySeen ==
  /\ sPc = "returned"
  /\ OccursAnyCase(<<"e", "t", "h">>, ScoredText)
  /\ ~\E i \in 1..Len(ScoredText) : ScoredText[i] = "$"
  /\ ~HasDisqualifier(ScoredText)
  /\ sResult.score > 3

\* C11: scorePost returns for every input, an absent or empty text and an
\* absent timestamp included, and an absent or empty text is given the neutral
\* result: score 0, company null, location null, empty techStack
C11_NeverThrowsNeutral ==
  sPc # "call" =>
    /\ sPc = "returned"
    /\ sContent \in {UNDEFINED, NULL, <<>>} =>
         /\ sResult.score = 0
         /\ sResult.company = NULL
         /\ sResult.location = NULL
         /\ sResult.techStack = <<>>

-----------------------------------------------------------------------------
(* Properties of the stored leads *)

\* C12: no step of the runs, of the store or of the listing changes or removes a
\* stored lead: the table before a step is the beginning of the table after it
C12_LeadsOnlyAppended ==
  [][/\ Len(leads') >= Len(leads)
     /\ SubSeq(leads', 1, Len(leads)) = leads]_vars

\* two leads are stored and a lead already stored has just been inserted again
C12_DuplicateAfterTwoStored ==
  /\ Len(leads) = 2
  /\ last # NONE
  /\ last.existed
  /\ last.rowsBefore = 2

-----------------------------------------------------------------------------
(* The end-to-end scenario of the score *)

\* the technology tags of a result are distinct
DistinctTags(tags) == \A a, b \in 1..Len(tags) : tags[a] = tags[b] => a = b

\* C13: "Looking for a React dev ASAP, $50/hr, remote, at Acme Inc." with a
\* fresh timestamp is scored 9 with techStack ["React"], company "Acme Inc" and
\* location "remote"; and the score of a text that is not disqualified is the
\* sum of what its signals add, one point per distinct technology tag
C13_ScenarioScoreNine ==
  (sPc = "returned" /\ ~HasDisqualifier(ScoredText)) =>
    /\ sResult.score = (IF HasPaySignal(ScoredText) THEN 3 ELSE 0) + OtherThanPay
    /\ DistinctTags(sResult.techStack)
    /\ (sContent = ScenarioHire /\ sCreated = Num(EvalInstant)) =>
         /\ sResult.score = 9
         /\ sResult.techStack = << <<"R", "e", "a", "c", "t">> >>
         /\ sResult.company = <<"A", "c", "m", "e", " ", "I", "n", "c">>
         /\ sResult.location = <<"r", "e", "m", "o", "t", "e">>

-----------------------------------------------------------------------------
(* The contribution of a source that does not answer with a listing of posts *)

\* C14: a source whose fetch or parse fails, or whose answer has another shape
\* than a list of post objects (a list with a malformed later item included),
\* adds nothing to the results of the call
C14_MalformedSourceEmpty ==
  fPc # "off" =>
    fResults = Concat([k \in 1..Len(fResponses) |-> SourceLeads(fResponses[k].r)])

-----------------------------------------------------------------------------
(* The insert loop of a harvest run *)

\* C15: whatever the outcome of the insert of a lead (stored, duplicate, store
\* error), the run goes on with the next lead of its batch, in order, and ends
\* after the last one; the count the run reports is the number of rows it added
C15_InsertFailuresContained ==
  /\ last # NONE =>
       IF last.at < last.batch
       THEN pc[last.h] = "inserting" /\ idx[last.h] = last.at + 1
       ELSE pc[last.h] = "done" /\ logged # NONE /\ logged.h = last.h
  /\ logged # NONE => logged.newRows = logged.added
  /\ \A h \in Harvests : pc[h] = "inserting" => newRows[h] = added[h]

\* a run has ended after the last of its two leads, which it stored, and
\* reports one new lead: the first was a duplicate or its insert failed
C15_CountSkipsFirst ==
  /\ last # NONE
  /\ last.batch = 2
  /\ last.at = 2
  /\ last.changes = 1
  /\ logged # NONE
  /\ logged.newRows = 1

-----------------------------------------------------------------------------
(* The fetches of one call of fetchReddit *)

\* the identifiers a configuration names: its pieces, trimmed, the empty dropped
SourceIds(csv) == {ParseSubs(csv)[k] : k \in 1..Len(ParseSubs(csv))}

\* the fetches issued for the identifier id so far
FetchesOf(id) == {k \in 1..Len(fResponses) : fResponses[k].sub = id}

\* C16: a call fetches the identifiers of its configuration and no other, none
\* more than once whether its fetch failed or not, and when the call returns
\* each identifier has been fetched exactly once
C16_OneFetchPerSource ==
  fPc # "off" =>
    /\ \A k \in 1..Len(fResponses) : fResponses[k].sub \in SourceIds(fCsv)
    /\ \A id \in SourceIds(fCsv) : Cardinality(FetchesOf(id)) <= 1
    /\ fPc = "returned" => \A id \in SourceIds(fCsv) : Cardinality(FetchesOf(id)) = 1

-----------------------------------------------------------------------------
(* The order of a listing *)

\* the position of a listed row in the table, which is in insertion order
InsertedAt(row) == CHOOSE k \in 1..Len(leads) : leads[k] = row

\* C17: a listing is newest first in insertion order: of two listed leads, the
\* one inserted later comes first, also when both have the same creation time
C17_ListedNewestFirst ==
  (resp # NONE /\ resp.status = 200) =>
    \A a, b \in 1..Len(resp.rows) :
      a < b => InsertedAt(resp.rows[a]) > InsertedAt(resp.rows[b])

-----------------------------------------------------------------------------
(* The two backends under the same calls *)

\* C18: for every sequence of insertLead and latestLeads calls of one caller,
\* the result of each call on the Postgres backend, once awaited, equals its
\* result on the SQLite backend
C18_BackendsAgree ==
  bSeen # NONE => Awaited(bSeen.pg) = Awaited(bSeen.lite)

====
